---- MODULE Spec2Model ----
(***************************************************************************)
(* Model of evaluate.py: the straight-line LangSmith evaluation driver.    *)
(* The driver is one thread of control (pc); the platform client, the     *)
(* chat client and the LLM-as-judge grader are external collaborators     *)
(* whose answers are nondeterministic choices and whose invocations are   *)
(* recorded in call logs.                                                  *)
(***************************************************************************)
EXTENDS Integers, Sequences, FiniteSets, TLC

VARIABLES pc, env, env0, reads, err, openai_client, client, dataset, idx,
          calls, store, runs, chatCalls, targetLog, graderCalls,
          evaluatorLog, experiment_results, printed

vars == <<pc, env, env0, reads, err, openai_client, client, dataset, idx,
          calls, store, runs, chatCalls, targetLog, graderCalls,
          evaluatorLog, experiment_results, printed>>

(* ---------------------------------------------------------------------- *)
(* Values                                                                 *)
(* ---------------------------------------------------------------------- *)

\* Python's None: what os.getenv returns for a variable that is not set.
None == "<None>"

EnvNames == {"LANGSMITH_TRACING", "LANGSMITH_ENDPOINT",
             "LANGSMITH_API_KEY", "GOOGLE_API_KEY"}

TracingValue == "true"
EndpointValue == "https://api.smith.langchain.com"

LangsmithKeyError == "Please set the LANGSMITH_API_KEY environment variable"
GoogleKeyError == "Please set the GOOGLE_API_KEY environment variable"

ChatModel == "gemini-1.5-flash"
SystemInstruction == "Answer the following question accurately"

CreateDatasetName == "ds-somber-trailer-42"
CreateDatasetDescription == "A sample dataset in LangSmith."

EvaluateDataName == "ds-somber-trailer-42"
ExperimentPrefix == "experiment-quickstart-excellent-curiosity-99"
MaxConcurrency == 2

JudgePrompt == "CORRECTNESS_PROMPT"
JudgeModel == "gemini-1.5-flash"
FeedbackKey == "correctness"

PrintPrefix == "Evaluation completed. Results:"

\* Fault: the two examples in the wrong order.
examplesReversed ==
    << [inputs  |-> [question |-> "What is Earth's lowest point?"],
        outputs |-> [answer |-> "Earth's lowest point is The Dead Sea."]],
       [inputs  |-> [question |-> "Which country is Mount Kilimanjaro located in?"],
        outputs |-> [answer |-> "Mount Kilimanjaro is located in Tanzania."]] >>

\* The examples literal.
examples ==
    << [inputs  |-> [question |-> "Which country is Mount Kilimanjaro located in?"],
        outputs |-> [answer |-> "Mount Kilimanjaro is located in Tanzania."]],
       [inputs  |-> [question |-> "What is Earth's lowest point?"],
        outputs |-> [answer |-> "Earth's lowest point is The Dead Sea."]] >>

(* ---------------------------------------------------------------------- *)
(* The environment the process can be started in, and what the external   *)
(* services can answer.                                                   *)
(* ---------------------------------------------------------------------- *)

LangsmithKeys == {None, "", "ls-key"}
GoogleKeys == {None, "", "g-key"}
TracingInits == {None, "false"}
EndpointInits == {None, "http://localhost:1984"}

\* Ids the remote store can hand out for a newly created dataset.
NewDatasetIds == {"id-a", "id-b"}
OldDatasetId == "id-old"

\* Texts the chat model can answer with.
Texts == {"Mount Kilimanjaro is located in Tanzania.", "The Dead Sea", ""}

\* Records the grader can return.
Scores == {[key |-> FeedbackKey, score |-> TRUE],
           [key |-> FeedbackKey, score |-> FALSE]}

\* Summary objects the evaluate call can return.
Summaries == {"<ExperimentResults exp-1>", "<ExperimentResults exp-2>"}

\* Names not yet bound by the script.
NoChatClient == [api_key |-> None, model |-> None, traced |-> FALSE]
NoDataset == [id |-> None]
NoAnswer == [answer |-> None]
NoScore == [key |-> None, score |-> FALSE]

(* ---------------------------------------------------------------------- *)
(* Helpers                                                                *)
(* ---------------------------------------------------------------------- *)

\* os.getenv(name): the value, or None when the variable is not set.
getenv(e, name) == e[name]

\* Faults of the check: one that never finds a credential missing, one that
\* takes only an unset variable for missing.
NotNever(v) == FALSE
NotUnsetOnly(v) == v = None

\* Python truthiness of `not v` for v a str or None.
Not(v) == v = None \/ v = ""

\* Fault: the two messages in the wrong order.
TargetMessagesSwapped(question) ==
    << [role |-> "user", content |-> question],
       [role |-> "system", content |-> SystemInstruction] >>

\* The message list target builds for a question.
TargetMessages(question) ==
    << [role |-> "system", content |-> SystemInstruction],
       [role |-> "user", content |-> question] >>

\* The mapping target returns for a chat response.
TargetResult(response) == [answer |-> response.content]

\* What correctness_evaluator returns for the grader's result.
EvaluatorResult(eval_result) == eval_result

\* Keyword arguments of the create_dataset call.
CreateDatasetArgs ==
    [dataset_name |-> CreateDatasetName, description |-> CreateDatasetDescription]

\* Keyword arguments of the create_example call for one example.
CreateExampleArgs(ds, example) ==
    [dataset_id |-> ds.id, inputs |-> example.inputs, outputs |-> example.outputs]

\* Fault: the evaluate call names another dataset than the one created.
EvaluateArgsOtherName ==
    [target |-> "target", data |-> "ds-somber-trailer-43",
     evaluators |-> <<"correctness_evaluator">>,
     experiment_prefix |-> ExperimentPrefix,
     max_concurrency |-> MaxConcurrency]

\* Arguments of the evaluate call.
EvaluateArgs ==
    [target |-> "target", data |-> EvaluateDataName,
     evaluators |-> <<"correctness_evaluator">>,
     experiment_prefix |-> ExperimentPrefix,
     max_concurrency |-> MaxConcurrency]

\* Fault: the answer and the reference answer change places.
GraderArgsSwapped(inputs, outputs, reference_outputs) ==
    [inputs |-> inputs, outputs |-> reference_outputs, reference_outputs |-> outputs]

\* Keyword arguments correctness_evaluator hands to the grader.
GraderArgs(inputs, outputs, reference_outputs) ==
    [inputs |-> inputs, outputs |-> outputs, reference_outputs |-> reference_outputs]

\* Arguments of create_llm_as_judge.
JudgeConfig == [prompt |-> JudgePrompt, model |-> JudgeModel, feedback_key |-> FeedbackKey]

\* Fault: the print loses its prefix.
PrintArgsNoPrefix(results) == <<results>>

\* The argument tuple of the final print.
PrintArgs(results) == <<PrintPrefix, results>>

\* Examples stored remotely under a dataset name.
StoredExamples(s, name) ==
    SelectSeq(s.examples, LAMBDA x : \E d \in s.datasets : d.name = name /\ d.id = x.dataset_id)

(* ---------------------------------------------------------------------- *)
(* Initial state                                                          *)
(* ---------------------------------------------------------------------- *)

Init ==
    /\ pc = "L8"
    /\ \E t \in TracingInits, e \in EndpointInits, l \in LangsmithKeys, g \in GoogleKeys :
          env = [n \in EnvNames |->
                   CASE n = "LANGSMITH_TRACING" -> t
                     [] n = "LANGSMITH_ENDPOINT" -> e
                     [] n = "LANGSMITH_API_KEY" -> l
                     [] OTHER -> g]
    /\ env0 = env
    /\ reads = << >>
    /\ err = None
    /\ openai_client = NoChatClient
    /\ client = None
    /\ dataset = NoDataset
    /\ idx = 0
    /\ calls = << >>
    /\ \E exists \in BOOLEAN :
          store = [datasets |-> IF exists
                                  THEN {[name |-> CreateDatasetName, id |-> OldDatasetId]}
                                  ELSE {},
                   examples |-> << >>]
    /\ runs = << >>
    /\ chatCalls = << >>
    /\ targetLog = << >>
    /\ graderCalls = << >>
    /\ evaluatorLog = << >>
    /\ experiment_results = None
    /\ printed = << >>

(* ---------------------------------------------------------------------- *)
(* Environment bootstrap (lines 8-17)                                     *)
(* ---------------------------------------------------------------------- *)

driverOnly == <<store, runs, chatCalls, targetLog, graderCalls, evaluatorLog>>

\* os.environ["LANGSMITH_TRACING"] = "true"
SetTracing ==
    /\ pc = "L8"
    /\ env' = [env EXCEPT !["LANGSMITH_TRACING"] = TracingValue]
    /\ pc' = "L9"
    /\ UNCHANGED <<env0, reads, err, openai_client, client, dataset, idx, calls,
                   experiment_results, printed>>
    /\ UNCHANGED driverOnly

\* os.environ["LANGSMITH_ENDPOINT"] = "https://api.smith.langchain.com"
SetEndpoint ==
    /\ pc = "L9"
    /\ env' = [env EXCEPT !["LANGSMITH_ENDPOINT"] = EndpointValue]
    /\ pc' = "L11"
    /\ UNCHANGED <<env0, reads, err, openai_client, client, dataset, idx, calls,
                   experiment_results, printed>>
    /\ UNCHANGED driverOnly

\* if not os.getenv("LANGSMITH_API_KEY"): raise ValueError(...)
CheckLangsmithKey ==
    /\ pc = "L11"
    /\ reads' = Append(reads, "LANGSMITH_API_KEY")
    /\ IF Not(getenv(env, "LANGSMITH_API_KEY"))
         THEN pc' = "raised" /\ err' = LangsmithKeyError
         ELSE pc' = "L13" /\ err' = err
    /\ UNCHANGED <<env, env0, openai_client, client, dataset, idx, calls,
                   experiment_results, printed>>
    /\ UNCHANGED driverOnly

\* Fault: the key is overwritten with the other credential.
ReassignLangsmithKeyWrong ==
    /\ pc = "L13"
    /\ reads' = Append(reads, "GOOGLE_API_KEY")
    /\ env' = [env EXCEPT !["LANGSMITH_API_KEY"] = getenv(env, "GOOGLE_API_KEY")]
    /\ pc' = "L16"
    /\ UNCHANGED <<env0, err, openai_client, client, dataset, idx, calls,
                   experiment_results, printed>>
    /\ UNCHANGED driverOnly

\* os.environ["LANGSMITH_API_KEY"] = os.getenv("LANGSMITH_API_KEY")
ReassignLangsmithKey ==
    /\ pc = "L13"
    /\ reads' = Append(reads, "LANGSMITH_API_KEY")
    /\ env' = [env EXCEPT !["LANGSMITH_API_KEY"] = getenv(env, "LANGSMITH_API_KEY")]
    /\ pc' = "L16"
    /\ UNCHANGED <<env0, err, openai_client, client, dataset, idx, calls,
                   experiment_results, printed>>
    /\ UNCHANGED driverOnly

\* if not os.getenv("GOOGLE_API_KEY"): raise ValueError(...)
CheckGoogleKey ==
    /\ pc = "L16"
    /\ reads' = Append(reads, "GOOGLE_API_KEY")
    /\ IF Not(getenv(env, "GOOGLE_API_KEY"))
         THEN pc' = "raised" /\ err' = GoogleKeyError
         ELSE pc' = "L20" /\ err' = err
    /\ UNCHANGED <<env, env0, openai_client, client, dataset, idx, calls,
                   experiment_results, printed>>
    /\ UNCHANGED driverOnly

(* ---------------------------------------------------------------------- *)
(* Client construction (lines 20, 33)                                     *)
(* ---------------------------------------------------------------------- *)

\* openai_client = wrappers.wrap_google_generative_ai(
\*     ChatGoogleGenerativeAI(api_key=os.environ["GOOGLE_API_KEY"], model=...))
WrapChatClient ==
    /\ pc = "L20"
    /\ reads' = Append(reads, "GOOGLE_API_KEY")
    /\ openai_client' = [api_key |-> env["GOOGLE_API_KEY"], model |-> ChatModel,
                         traced |-> TRUE]
    /\ pc' = "L33"
    /\ UNCHANGED <<env, env0, err, client, dataset, idx, calls,
                   experiment_results, printed>>
    /\ UNCHANGED driverOnly

\* client = Client()
NewClient ==
    /\ pc = "L33"
    /\ client' = "Client()"
    /\ pc' = "L35"
    /\ UNCHANGED <<env, env0, reads, err, openai_client, dataset, idx, calls,
                   experiment_results, printed>>
    /\ UNCHANGED driverOnly

(* ---------------------------------------------------------------------- *)
(* Dataset provisioning (lines 35-55)                                     *)
(* ---------------------------------------------------------------------- *)

\* Fault: the exception is swallowed and the statement is tried again.
RaiseRetried(call, e) ==
    /\ calls' = Append(calls, [op |-> call.op, args |-> call.args,
                               outcome |-> "raised", result |-> None])
    /\ pc' = pc
    /\ err' = err

\* A remote call that raised: the exception is not caught anywhere, so the
\* script stops there.
Raise(call, e) ==
    /\ calls' = Append(calls, [op |-> call.op, args |-> call.args,
                               outcome |-> "raised", result |-> None])
    /\ pc' = "raised"
    /\ err' = e

\* Fault (a get-or-create): a name the store already holds is reused.
CreateDatasetOrReuse ==
    /\ pc = "L35"
    /\ LET call == [op |-> "create_dataset", args |-> CreateDatasetArgs] IN
       \/ /\ Raise(call, "LangSmithError")
          /\ UNCHANGED <<dataset, store, idx>>
       \/ /\ \E id \in NewDatasetIds \cup {OldDatasetId} :
                /\ id = OldDatasetId <=>
                      \E d \in store.datasets : d.name = call.args.dataset_name
                /\ dataset' = [id |-> id]
                /\ store' = [store EXCEPT !.datasets =
                                @ \cup {[name |-> call.args.dataset_name, id |-> id]}]
          /\ calls' = Append(calls, [op |-> call.op, args |-> call.args,
                                     outcome |-> "ok", result |-> dataset'])
          /\ idx' = 1
          /\ pc' = "L50"
          /\ err' = err
    /\ UNCHANGED <<env, env0, reads, openai_client, client, experiment_results, printed>>
    /\ UNCHANGED <<runs, chatCalls, targetLog, graderCalls, evaluatorLog>>

\* dataset = client.create_dataset(dataset_name=..., description=...)
\* The store rejects a name it already holds; any request can also fail in
\* transit.
CreateDataset ==
    /\ pc = "L35"
    /\ LET call == [op |-> "create_dataset", args |-> CreateDatasetArgs] IN
       \/ /\ \E d \in store.datasets : d.name = call.args.dataset_name
          /\ Raise(call, "LangSmithConflictError")
          /\ UNCHANGED <<dataset, store, idx>>
       \/ /\ Raise(call, "LangSmithError")
          /\ UNCHANGED <<dataset, store, idx>>
       \/ /\ ~ \E d \in store.datasets : d.name = call.args.dataset_name
          /\ \E id \in NewDatasetIds :
                /\ dataset' = [id |-> id]
                /\ store' = [store EXCEPT !.datasets =
                                @ \cup {[name |-> call.args.dataset_name, id |-> id]}]
          /\ calls' = Append(calls, [op |-> call.op, args |-> call.args,
                                     outcome |-> "ok", result |-> dataset'])
          /\ idx' = 1
          /\ pc' = "L50"
          /\ err' = err
    /\ UNCHANGED <<env, env0, reads, openai_client, client, experiment_results, printed>>
    /\ UNCHANGED <<runs, chatCalls, targetLog, graderCalls, evaluatorLog>>

\* for example in examples: client.create_example(dataset_id=dataset.id, ...)
\* One iteration of the loop.
CreateExample ==
    /\ pc = "L50"
    /\ idx <= Len(examples)
    /\ LET call == [op |-> "create_example", args |-> CreateExampleArgs(dataset, examples[idx])] IN
       \/ /\ Raise(call, "LangSmithError")
          /\ UNCHANGED <<store, idx>>
       \/ /\ store' = [store EXCEPT !.examples = Append(@, call.args)]
          /\ calls' = Append(calls, [op |-> call.op, args |-> call.args,
                                     outcome |-> "ok", result |-> None])
          /\ idx' = idx + 1
          /\ pc' = IF idx + 1 <= Len(examples) THEN "L50" ELSE "L70"
          /\ err' = err
    /\ UNCHANGED <<env, env0, reads, openai_client, client, dataset,
                   experiment_results, printed>>
    /\ UNCHANGED <<runs, chatCalls, targetLog, graderCalls, evaluatorLog>>

(* ---------------------------------------------------------------------- *)
(* Evaluation run (lines 70-76) and the two callbacks the service drives  *)
(* (lines 24-31 and 58-67)                                                *)
(* ---------------------------------------------------------------------- *)

\* experiment_results = client.evaluate(target, data=..., evaluators=[...], ...)
\* The call is issued; the service lays out one run per example stored
\* under the name it was given.
EvaluateCall ==
    /\ pc = "L70"
    /\ calls' = Append(calls, [op |-> "evaluate", args |-> EvaluateArgs,
                               outcome |-> "pending", result |-> None])
    /\ runs' = [k \in 1..Len(StoredExamples(store, EvaluateArgs.data)) |->
                  [example |-> StoredExamples(store, EvaluateArgs.data)[k],
                   status |-> "pending",
                   outputs |-> NoAnswer]]
    /\ pc' = "evaluating"
    /\ UNCHANGED <<env, env0, reads, err, openai_client, client, dataset, idx,
                   experiment_results, printed>>
    /\ UNCHANGED <<store, chatCalls, targetLog, graderCalls, evaluatorLog>>

\* def target(inputs): response = openai_client.invoke([...]);
\*                     return {"answer": response.content}
\* Called by the service for run k; the chat client answers with some text
\* or raises, and a raise leaves target as it came.
Target(k) ==
    /\ pc = "evaluating"
    /\ runs[k].status = "pending"
    /\ LET inputs == runs[k].example.inputs
           messages == TargetMessages(inputs.question) IN
       \/ \E t \in Texts :
             LET response == [content |-> t] IN
             /\ chatCalls' = Append(chatCalls,
                    [client |-> openai_client, messages |-> messages,
                     outcome |-> "ok", response |-> response])
             /\ targetLog' = Append(targetLog,
                    [inputs |-> inputs, outcome |-> "returned",
                     result |-> TargetResult(response)])
             /\ runs' = [runs EXCEPT ![k].status = "answered",
                                     ![k].outputs = TargetResult(response)]
       \/ /\ chatCalls' = Append(chatCalls,
                    [client |-> openai_client, messages |-> messages,
                     outcome |-> "raised", response |-> [content |-> None]])
          /\ targetLog' = Append(targetLog,
                    [inputs |-> inputs, outcome |-> "raised", result |-> NoAnswer])
          /\ runs' = [runs EXCEPT ![k].status = "failed"]
    /\ UNCHANGED <<pc, env, env0, reads, err, openai_client, client, dataset, idx,
                   calls, experiment_results, printed>>
    /\ UNCHANGED <<store, graderCalls, evaluatorLog>>

\* def correctness_evaluator(inputs, outputs, reference_outputs):
\*     evaluator = create_llm_as_judge(...); return evaluator(inputs=..., ...)
\* Called by the service for run k once target has answered.
CorrectnessEvaluator(k) ==
    /\ pc = "evaluating"
    /\ runs[k].status = "answered"
    /\ LET inputs == runs[k].example.inputs
           outputs == runs[k].outputs
           reference_outputs == runs[k].example.outputs
           given == [inputs |-> inputs, outputs |-> outputs,
                     reference_outputs |-> reference_outputs] IN
       \/ \E eval_result \in Scores :
             /\ graderCalls' = Append(graderCalls,
                    [config |-> JudgeConfig,
                     args |-> GraderArgs(inputs, outputs, reference_outputs),
                     outcome |-> "ok", result |-> eval_result])
             /\ evaluatorLog' = Append(evaluatorLog,
                    [given |-> given, outcome |-> "returned",
                     result |-> EvaluatorResult(eval_result)])
             /\ runs' = [runs EXCEPT ![k].status = "scored"]
       \/ /\ graderCalls' = Append(graderCalls,
                    [config |-> JudgeConfig,
                     args |-> GraderArgs(inputs, outputs, reference_outputs),
                     outcome |-> "raised", result |-> NoScore])
          /\ evaluatorLog' = Append(evaluatorLog,
                    [given |-> given, outcome |-> "raised", result |-> NoScore])
          /\ runs' = [runs EXCEPT ![k].status = "failed"]
    /\ UNCHANGED <<pc, env, env0, reads, err, openai_client, client, dataset, idx,
                   calls, experiment_results, printed>>
    /\ UNCHANGED <<store, chatCalls, targetLog>>

\* The evaluate call returns its summary object, which is bound to
\* experiment_results.
EvaluateReturn ==
    /\ pc = "evaluating"
    /\ \E d \in store.datasets : d.name = calls[Len(calls)].args.data
    /\ \A k \in DOMAIN runs : runs[k].status \in {"scored", "failed"}
    /\ \E r \in Summaries :
          /\ calls' = [calls EXCEPT ![Len(calls)].outcome = "ok", ![Len(calls)].result = r]
          /\ experiment_results' = calls'[Len(calls)].result
    /\ pc' = "L78"
    /\ UNCHANGED <<env, env0, reads, err, openai_client, client, dataset, idx, printed>>
    /\ UNCHANGED driverOnly

\* The evaluate call raises; nothing catches it.
EvaluateRaise ==
    /\ pc = "evaluating"
    /\ calls' = [calls EXCEPT ![Len(calls)].outcome = "raised"]
    /\ pc' = "raised"
    /\ err' = "LangSmithError"
    /\ UNCHANGED <<env, env0, reads, openai_client, client, dataset, idx,
                   experiment_results, printed>>
    /\ UNCHANGED driverOnly

\* print("Evaluation completed. Results:", experiment_results)
PrintResults ==
    /\ pc = "L78"
    /\ printed' = Append(printed, PrintArgs(experiment_results))
    /\ pc' = "done"
    /\ UNCHANGED <<env, env0, reads, err, openai_client, client, dataset, idx, calls,
                   experiment_results>>
    /\ UNCHANGED driverOnly

Next ==
    \/ SetTracing
    \/ SetEndpoint
    \/ CheckLangsmithKey
    \/ ReassignLangsmithKey
    \/ CheckGoogleKey
    \/ WrapChatClient
    \/ NewClient
    \/ CreateDataset
    \/ CreateExample
    \/ EvaluateCall
    \/ \E k \in DOMAIN runs : Target(k)
    \/ \E k \in DOMAIN runs : CorrectnessEvaluator(k)
    \/ EvaluateReturn
    \/ EvaluateRaise
    \/ PrintResults

Spec == Init /\ [][Next]_vars

(* ---------------------------------------------------------------------- *)
(* Properties                                                             *)
(* ---------------------------------------------------------------------- *)

\* A credential the process was started without: unset, or set to "".
MissingAtStart(name) == env0[name] = None \/ env0[name] = ""

Terminated == pc \in {"raised", "done"}

BootstrapLabels == {"L8", "L9", "L11", "L13", "L16"}

\* C1: startup fail-fast.  When the process starts with LANGSMITH_API_KEY or
\* GOOGLE_API_KEY absent, every state of the run is still in the bootstrap
\* or is the missing-credential error: no platform-client call, no chat
\* invoke and no grader call has been made, neither client has been
\* constructed, and the only state the run can stop in is that error.
C1_FailFast ==
    (MissingAtStart("LANGSMITH_API_KEY") \/ MissingAtStart("GOOGLE_API_KEY")) =>
        /\ calls = << >>
        /\ chatCalls = << >>
        /\ graderCalls = << >>
        /\ openai_client = NoChatClient
        /\ client = None
        /\ pc \in BootstrapLabels \cup {"raised"}
        /\ pc = "raised" =>
              err \in {"Please set the LANGSMITH_API_KEY environment variable",
                       "Please set the GOOGLE_API_KEY environment variable"}
        /\ (~ ENABLED Next) => pc = "raised"

\* The run stopped on the second check, the first having passed.
C1_Witness ==
    /\ ~ MissingAtStart("LANGSMITH_API_KEY")
    /\ MissingAtStart("GOOGLE_API_KEY")
    /\ pc = "raised"
    /\ err = "Please set the GOOGLE_API_KEY environment variable"
    /\ calls = << >>

\* C9: the tracing flag and the endpoint are written before any credential
\* is read, so they hold their fixed values in every later state, the final
\* state of a failed startup included; the two credentials keep the values
\* the process was started with in every state.
C9_EnvFrame ==
    /\ (reads # << >> \/ Terminated) =>
          /\ env["LANGSMITH_TRACING"] = "true"
          /\ env["LANGSMITH_ENDPOINT"] = "https://api.smith.langchain.com"
    /\ env["LANGSMITH_API_KEY"] = env0["LANGSMITH_API_KEY"]
    /\ env["GOOGLE_API_KEY"] = env0["GOOGLE_API_KEY"]

\* A failed startup that changed the environment it was given; and a run
\* that went past the reassignment of line 13 with two different keys.
C9_Witness ==
    \/ /\ pc = "raised"
       /\ err = "Please set the LANGSMITH_API_KEY environment variable"
       /\ env0["LANGSMITH_TRACING"] # "true"
       /\ env["LANGSMITH_TRACING"] = "true"
       /\ env # env0
    \/ /\ pc = "done"
       /\ env0["LANGSMITH_API_KEY"] # env0["GOOGLE_API_KEY"]

IsPrefix(s, t) == Len(s) <= Len(t) /\ \A k \in 1..Len(s) : s[k] = t[k]

\* C10: the credentials are examined in a fixed order, LANGSMITH_API_KEY
\* first.  When it is missing the error names it and GOOGLE_API_KEY is never
\* read; the error names GOOGLE_API_KEY exactly when LANGSMITH_API_KEY is
\* present and GOOGLE_API_KEY is missing; "" counts as missing like unset.
C10_CheckOrder ==
    /\ IsPrefix(reads, <<"LANGSMITH_API_KEY", "LANGSMITH_API_KEY",
                         "GOOGLE_API_KEY", "GOOGLE_API_KEY">>)
    /\ MissingAtStart("LANGSMITH_API_KEY") =>
          /\ \A k \in 1..Len(reads) : reads[k] # "GOOGLE_API_KEY"
          /\ pc \in {"L8", "L9", "L11", "raised"}
          /\ pc = "raised" =>
                err = "Please set the LANGSMITH_API_KEY environment variable"
    /\ (~ MissingAtStart("LANGSMITH_API_KEY") /\ MissingAtStart("GOOGLE_API_KEY")) =>
          /\ pc \in BootstrapLabels \cup {"raised"}
          /\ pc = "raised" =>
                err = "Please set the GOOGLE_API_KEY environment variable"
    /\ (~ MissingAtStart("LANGSMITH_API_KEY") /\ ~ MissingAtStart("GOOGLE_API_KEY")) =>
          /\ err # "Please set the LANGSMITH_API_KEY environment variable"
          /\ err # "Please set the GOOGLE_API_KEY environment variable"

\* An empty LANGSMITH_API_KEY stopped the run although GOOGLE_API_KEY was
\* fine, and GOOGLE_API_KEY was not read.
C10_Witness ==
    /\ env0["LANGSMITH_API_KEY"] = ""
    /\ env0["GOOGLE_API_KEY"] = "g-key"
    /\ pc = "raised"
    /\ reads = <<"LANGSMITH_API_KEY">>

\* The fixed system message, as the source spells it.
SystemMessage == [role |-> "system", content |-> "Answer the following question accurately"]

\* C2: target is a pure adapter.  Every call of target, for the question Q
\* the service hands it, makes exactly one chat invoke, whose messages are
\* the system instruction followed by a user message carrying Q unmodified;
\* when the chat client answers text T the service receives exactly
\* {"answer": T}; the call touches no platform client, no grader, no
\* driver variable and prints nothing; and no chat invoke happens outside a
\* call of target.
C2_TargetAdapter ==
    [][ /\ Len(chatCalls') # Len(chatCalls) => Len(targetLog') = Len(targetLog) + 1
        /\ Len(targetLog') # Len(targetLog) =>
              \E k \in DOMAIN runs :
                 LET Q == runs[k].example.inputs.question
                     call == chatCalls'[Len(chatCalls')]
                     ret == targetLog'[Len(targetLog')] IN
                 /\ runs[k].status = "pending"
                 /\ \A j \in DOMAIN runs \ {k} : runs'[j] = runs[j]
                 /\ Len(targetLog') = Len(targetLog) + 1
                 /\ Len(chatCalls') = Len(chatCalls) + 1
                 /\ SubSeq(chatCalls', 1, Len(chatCalls)) = chatCalls
                 /\ call.messages = <<SystemMessage, [role |-> "user", content |-> Q]>>
                 /\ call.client = openai_client
                 /\ call.outcome = "ok" =>
                       /\ ret.outcome = "returned"
                       /\ ret.result = [answer |-> call.response.content]
                       /\ runs'[k].outputs = [answer |-> call.response.content]
                 /\ call.outcome = "raised" => ret.outcome = "raised"
                 /\ UNCHANGED <<pc, env, env0, reads, err, openai_client, client,
                                dataset, idx, calls, store, graderCalls,
                                evaluatorLog, experiment_results, printed>>
      ]_vars

\* target has answered both questions, once with the empty text.
C2_Witness ==
    /\ Len(targetLog) = 2
    /\ Len(chatCalls) = 2
    /\ targetLog[1].outcome = "returned"
    /\ targetLog[2].outcome = "returned"
    /\ targetLog[1].inputs # targetLog[2].inputs
    /\ targetLog[2].result = [answer |-> ""]

\* C3: correctness_evaluator is a pass-through.  Every call of it, for the
\* triple the service hands it, calls the grader exactly once with inputs,
\* outputs and reference_outputs each in its own role and unmodified, and
\* returns the grader's result unchanged; no grader call happens outside a
\* call of correctness_evaluator.
C3_EvaluatorPassThrough ==
    [][ /\ Len(graderCalls') # Len(graderCalls) => Len(evaluatorLog') = Len(evaluatorLog) + 1
        /\ Len(evaluatorLog') # Len(evaluatorLog) =>
              \E k \in DOMAIN runs :
                 LET call == graderCalls'[Len(graderCalls')]
                     ret == evaluatorLog'[Len(evaluatorLog')] IN
                 /\ runs[k].status = "answered"
                 /\ \A j \in DOMAIN runs \ {k} : runs'[j] = runs[j]
                 /\ Len(evaluatorLog') = Len(evaluatorLog) + 1
                 /\ Len(graderCalls') = Len(graderCalls) + 1
                 /\ SubSeq(graderCalls', 1, Len(graderCalls)) = graderCalls
                 /\ ret.given = [inputs |-> runs[k].example.inputs,
                                 outputs |-> runs[k].outputs,
                                 reference_outputs |-> runs[k].example.outputs]
                 /\ call.args.inputs = runs[k].example.inputs
                 /\ call.args.outputs = runs[k].outputs
                 /\ call.args.reference_outputs = runs[k].example.outputs
                 /\ call.outcome = "ok" =>
                       /\ ret.outcome = "returned"
                       /\ ret.result = call.result
                 /\ call.outcome = "raised" => ret.outcome = "raised"
      ]_vars

\* The evaluator returned a grade for an answer that differs from the
\* reference answer.
C3_Witness ==
    \E n \in DOMAIN evaluatorLog :
        /\ evaluatorLog[n].outcome = "returned"
        /\ evaluatorLog[n].given.outputs # evaluatorLog[n].given.reference_outputs
        /\ evaluatorLog[n].result = graderCalls[n].result
        /\ evaluatorLog[n].result.score = FALSE

\* C4: whenever evaluate has been called, it was called with
\* max_concurrency 2, with target, with the evaluator list holding exactly
\* correctness_evaluator, and with the dataset name an earlier
\* create_dataset call of the same run was given.
C4_EvaluateArguments ==
    \A k \in DOMAIN calls :
        calls[k].op = "evaluate" =>
            /\ calls[k].args.max_concurrency = 2
            /\ calls[k].args.target = "target"
            /\ calls[k].args.evaluators = <<"correctness_evaluator">>
            /\ \E j \in 1..(k - 1) :
                  /\ calls[j].op = "create_dataset"
                  /\ calls[j].args.dataset_name = calls[k].args.data

\* The run has reached the evaluate call.
C4_Witness ==
    /\ Len(calls) = 4
    /\ calls[4].op = "evaluate"
    /\ calls[1].op = "create_dataset"
    /\ pc = "evaluating"

Ops(cs) == [k \in DOMAIN cs |-> cs[k].op]

ExampleCalls == {k \in DOMAIN calls : calls[k].op = "create_example"}

\* The driver is past the example loop.
LoopCompleted ==
    \/ pc \in {"L70", "evaluating", "L78", "done"}
    \/ pc = "raised" /\ \E k \in DOMAIN calls : calls[k].op = "evaluate"

\* C5: dataset provisioning.  Every create_example call comes after the
\* create_dataset call and is addressed to the id that call returned, which
\* is the id the store keeps for the name; no more than two are ever made;
\* and once both have succeeded the calls so far start with create_dataset,
\* create_example for the Mount Kilimanjaro question with its Tanzania
\* answer, create_example for the Earth's-lowest-point question with its
\* Dead Sea answer, in that order, and the store holds exactly these two.
C5_DatasetProvisioning ==
    /\ Cardinality(ExampleCalls) <= 2
    /\ \A k \in ExampleCalls :
          /\ k > 1
          /\ calls[1].op = "create_dataset"
          /\ calls[1].outcome = "ok"
          /\ calls[k].args.dataset_id = calls[1].result.id
          /\ [name |-> calls[1].args.dataset_name, id |-> calls[k].args.dataset_id]
                \in store.datasets
    /\ LoopCompleted =>
          /\ Len(calls) >= 3
          /\ ExampleCalls = {2, 3}
          /\ calls[2].outcome = "ok" /\ calls[3].outcome = "ok"
          /\ calls[2].args.inputs =
                [question |-> "Which country is Mount Kilimanjaro located in?"]
          /\ calls[2].args.outputs =
                [answer |-> "Mount Kilimanjaro is located in Tanzania."]
          /\ calls[3].args.inputs = [question |-> "What is Earth's lowest point?"]
          /\ calls[3].args.outputs =
                [answer |-> "Earth's lowest point is The Dead Sea."]
          /\ store.examples = <<calls[2].args, calls[3].args>>

\* Both examples were appended, to a dataset with the second of the ids.
C5_Witness ==
    /\ pc = "L70"
    /\ Len(calls) = 3
    /\ dataset.id = "id-b"
    /\ Len(store.examples) = 2

\* The store held a dataset of the configured name before the run.
PreExisting == \E d \in store.datasets : d.id = OldDatasetId

\* C6 (as claimed): when the store already holds a dataset of the configured
\* name, the creation request does not end the run: the dataset is reused.
C6_CreateOrReuse ==
    (PreExisting /\ calls # << >>) =>
        /\ err # "LangSmithConflictError"
        /\ calls[1].outcome = "ok" => dataset.id = OldDatasetId

\* C6 (amended): when the store already holds a dataset of the configured
\* name, the creation request is the run's only remote call: it raises, the
\* run stops there, no dataset is bound, no example is appended, evaluate
\* is never called and nothing is printed.
C6_ConflictIsFatal ==
    (PreExisting /\ calls # << >>) =>
        /\ Len(calls) = 1
        /\ calls[1].op = "create_dataset"
        /\ calls[1].outcome = "raised"
        /\ pc = "raised"
        /\ ~ ENABLED Next
        /\ dataset = NoDataset
        /\ store.examples = << >>
        /\ chatCalls = << >>
        /\ printed = << >>

\* The creation request was rejected for the name being taken.
C6_Witness ==
    /\ PreExisting
    /\ pc = "raised"
    /\ err = "LangSmithConflictError"
    /\ Len(calls) = 1

SuccessOps == <<"create_dataset", "create_example", "create_example", "evaluate">>

\* C7: end-to-end success path.  Nothing is printed before evaluate has
\* returned; a run that completes has made exactly create_dataset, two
\* create_example and evaluate, in this order and all successful, has
\* printed exactly one line, which starts with "Evaluation completed.
\* Results:" and carries the value evaluate returned, and makes no further
\* step; chat and grader calls happen only while evaluate is in progress;
\* and while no call has failed the run can always go on until it is done.
C7_SuccessPath ==
    /\ IsPrefix(Ops(calls), SuccessOps)
    /\ pc # "done" => printed = << >>
    /\ pc \in {"L78", "done"} =>
          /\ Ops(calls) = SuccessOps
          /\ \A k \in DOMAIN calls : calls[k].outcome = "ok"
          /\ experiment_results = calls[4].result
          /\ experiment_results \in Summaries
    /\ pc = "done" =>
          /\ Len(printed) = 1
          /\ Len(printed[1]) = 2
          /\ printed[1][1] = "Evaluation completed. Results:"
          /\ printed[1][2] = calls[4].result
          /\ ~ ENABLED Next
    /\ pc \notin {"evaluating", "L78", "done", "raised"} =>
          chatCalls = << >> /\ graderCalls = << >>
    /\ pc # "evaluating" => \A k \in DOMAIN calls : calls[k].outcome # "pending"
    /\ (~ ENABLED Next) => Terminated

\* The run completed and printed the second of the summaries.
C7_Witness ==
    /\ pc = "done"
    /\ printed = << <<"Evaluation completed. Results:", "<ExperimentResults exp-2>">> >>
    /\ Len(calls) = 4

\* C8: every remote-call failure is fatal and never retried.  A platform
\* call that raised is the last call of the run, and the only one of its
\* kind and arguments; the run has stopped in the error state and takes no
\* further step; the calls before it all succeeded and are the statements
\* before it in program order; nothing has been printed.
C8_FailuresAreFatal ==
    /\ IsPrefix(Ops(calls), SuccessOps)
    /\ \A k \in DOMAIN calls :
          calls[k].outcome = "raised" =>
              /\ k = Len(calls)
              /\ \A j \in 1..(k - 1) : calls[j].outcome = "ok"
              /\ \A j \in 1..(k - 1) :
                    ~ (calls[j].op = calls[k].op /\ calls[j].args = calls[k].args)
              /\ pc = "raised"
              /\ err \in {"LangSmithError", "LangSmithConflictError"}
              /\ ~ ENABLED Next
              /\ printed = << >>
              /\ experiment_results = None
              /\ calls[k].op = "create_dataset" => store.examples = << >>
              /\ calls[k].op = "create_example" => Len(store.examples) = k - 2

\* The first create_example failed: the second was never tried.
C8_Witness ==
    /\ pc = "raised"
    /\ Len(calls) = 2
    /\ calls[2].op = "create_example"
    /\ calls[2].outcome = "raised"
    /\ store.examples = << >>

====
